---- MODULE Spec2Model ----
(***************************************************************************)
(* Prescription intake and order gate of the pharmacy store backend.       *)
(*                                                                         *)
(* The prescription and order handlers live in                             *)
(* backend/src/controllers/productController.js (three controllers in one  *)
(* file), the Prescription schema in unnamed/part_009 and the routes in    *)
(* backend/src/routes/prescriptions.js and unnamed/part_007.               *)
(*                                                                         *)
(* Granularity: a handler is one action per database write it issues.      *)
(* verifyPrescription, updatePrescription and deletePrescription write     *)
(* once and are single actions.  uploadPrescription and                    *)
(* reprocessPrescription write several times around the OCR call and are   *)
(* tasks that keep a local copy of the document between their writes;      *)
(* createOrder reads and saves one product per cart line and is a task     *)
(* too.  save() writes the paths the handler changed on its local copy.    *)
(***************************************************************************)
EXTENDS Integers, Sequences, FiniteSets, TLC

----------------------------------------------------------------------------
(* Bounds *)

MaxTasks == 1       \* upload/reprocess handlers in flight at once
MaxImages == 2      \* images attached to one upload
MaxOrderTasks == 1  \* createOrder handlers in flight at once
MaxOrders == 1      \* orders ever created
MaxItems == 2       \* cart lines of one order
MaxReserved == 2    \* units of one product reserved at once
MaxStored == 3      \* documents in the collection the queries read
MaxMeds == 2        \* medications of the document whose refills are read
MaxRefills == 2     \* refills of one medication
MaxRefillsUsed == 4 \* refillsUsed of that document
MaxDate == 3        \* latest year a request body names
MaxLines == 3       \* lines of an OCR text
MaxRaceTasks == 2    \* createOrder handlers in flight at once when orders race
MaxRaceOrders == 2   \* orders ever created when orders race
MaxRaceReserved == 4 \* units of one product reserved at once when orders race
MaxHistory == 2      \* status changes recorded for one order
MaxPlaced == 2       \* orders the status requests address
MaxMedLines == 2    \* lines of an OCR text whose medications are parsed

----------------------------------------------------------------------------
(* Users and roles *)

None == "undefined"
NoNumber == 0 - 1    \* an unset Number path
Now == "now"         \* new Date(): the model records that a time was stamped

Patients == {"alice", "bob"}
Uploaders == {"alice"}    \* bob is the patient who owns nothing
Staff == {"pharma"}
Users == Patients \cup Staff
Admins == {"root"}
Callers == Users \cup Admins    \* who sends the read requests

Role(u) ==
  IF u \in Admins THEN "admin" ELSE IF u \in Staff THEN "pharmacist" ELSE "customer"

\* authorize(...roles): the route lets the request through iff the role is listed
authorize(roles, u) == Role(u) \in roles

----------------------------------------------------------------------------
(* Prescription schema *)

Statuses == {"pending_upload", "uploaded", "processing", "pending_verification",
             "verified", "rejected", "expired", "fulfilled"}

PreVerification == {"pending_upload", "uploaded", "processing", "pending_verification"}

\* verificationStatus of a freshly created document: isVerified defaults to false
DefaultVerification ==
  [isVerified |-> FALSE, verifiedBy |-> None, verifiedAt |-> None,
   verificationNotes |-> None, rejectionReason |-> None]

\* medication names are character sequences so that the order gate can compare them
Amoxicillin == <<"A", "m", "o", "x">>
Ibuprofen == <<"I", "b", "u">>

\* medications.map(med => ({name: med.name, ..., refills: med.refills || 0}))
Medication(name, refills) == [name |-> name, refills |-> refills]
MedLists == {<<Medication(Amoxicillin, 0)>>, <<Medication(Ibuprofen, 0)>>}

\* dates count years; NoDate is an unset Date path
NoDate == 0 - 1
UploadDate == 1

Priorities == {"low", "normal", "high", "urgent"}

\* images are named by their position in the upload
ImagesOf(n) == [i \in 1..n |-> i]

\* what processOCR returns, or that it threw
OcrResults == {[ok |-> TRUE, text |-> "Amox 250mg tablet", confidence |-> 87]}
OcrFailed == [ok |-> FALSE]
OcrOutcomes == OcrResults \cup {OcrFailed}

VARIABLES
  prescriptions,   \* Prescription collection: id -> document
  rxCreated,       \* ids handed out so far (an id is never reused)
  tasks,           \* uploadPrescription / reprocessPrescription handlers in flight
  response,        \* the step just taken: handler, user, document and the HTTP
                   \* status it answered (0 while the handler is still running)
  products,        \* Product collection: id -> document
  orders,          \* Order collection, in creation order
  orderTasks       \* createOrder handlers in flight

vars == <<prescriptions, rxCreated, tasks, response, products, orders, orderTasks>>
shopVars == <<products, orders, orderTasks>>
rxVars == <<prescriptions, rxCreated, tasks>>

\* ids the database hands out; handlers address one document by id and no
\* handler touches two, so the lifecycle is explored on one document
RxIds == {1}

NoTask == [op |-> "idle"]
TaskIds == 1..MaxTasks
FreeTasks == {t \in TaskIds : tasks[t].op = "idle"}
NewTask == CHOOSE t \in FreeTasks : \A s \in FreeTasks : t <= s

Exists(id) == id \in DOMAIN prescriptions

\* the createOrder handlers the specification lets run side by side
OrderTaskIds == DOMAIN orderTasks
FreeOrderTasks == {t \in OrderTaskIds : orderTasks[t].op = "idle"}
NewOrderTask == CHOOSE t \in FreeOrderTasks : \A s \in FreeOrderTasks : t <= s

\* the seeded catalog: a prescription-only product, an over-the-counter one
\* and one that is out of stock
AmoxName == <<"A", "m", "o", "x", " ", "2", "5", "0", "m", "g">>
VitaminName == <<"V", "i", "t", " ", "C">>
GauzeName == <<"G", "a", "u", "z", "e">>
Catalog ==
  (1 :> [name |-> AmoxName, isActive |-> TRUE, prescriptionRequired |-> TRUE,
         stock |-> [quantity |-> 2, reserved |-> 0]])
  @@ (2 :> [name |-> VitaminName, isActive |-> TRUE, prescriptionRequired |-> FALSE,
            stock |-> [quantity |-> 2, reserved |-> 0]])
  @@ (3 :> [name |-> GauzeName, isActive |-> TRUE, prescriptionRequired |-> FALSE,
            stock |-> [quantity |-> 0, reserved |-> 0]])

\* what a step answers: the status code, the error message of next(new
\* AppError(message, code)), what logger.error wrote on the way, the list
\* of documents in the body of a query and, when an upload or a reprocessing
\* ends, the images the handler passed to processOCR
Answer(op, u, id, code, message, logged, body) ==
  response' = [op |-> op, user |-> u, id |-> id, code |-> code, error |-> message,
               logged |-> logged, body |-> body, ocr |-> << >>]
Fail(op, u, id, code, message) == Answer(op, u, id, code, message, None, << >>)
Respond(op, u, id, code) == Fail(op, u, id, code, None)
Running(op, u, id) == Respond(op, u, id, 0)

\* no request in flight, the seeded catalog, no order
Idle ==
  /\ tasks = [t \in TaskIds |-> NoTask]
  /\ response = [op |-> "none", user |-> None, id |-> 0, code |-> 0, error |-> None,
                 logged |-> None, body |-> << >>, ocr |-> << >>]
  /\ products = Catalog
  /\ orders = << >>
  /\ orderTasks = [t \in 1..MaxOrderTasks |-> NoTask]

Init ==
  /\ prescriptions = << >>
  /\ rxCreated = 0
  /\ Idle

\* document.save(): $set of the given paths; a document that was deleted
\* meanwhile is not recreated
Save(id, changes) ==
  IF Exists(id)
  THEN [prescriptions EXCEPT ![id] =
          [f \in DOMAIN @ |-> IF f \in DOMAIN changes THEN changes[f] ELSE @[f]]]
  ELSE prescriptions

----------------------------------------------------------------------------
(* uploadPrescription *)

\* the schema's pre('save') hook: a number for a document that has none, and
\* an expiry date one year after the prescription date for one that has none
preSave(doc) ==
  LET numbered == IF doc.prescriptionNumber = None
                  THEN [doc EXCEPT !.prescriptionNumber = "RX-generated"]
                  ELSE doc
  IN IF numbered.expiryDate = NoDate /\ numbered.prescriptionDate # NoDate
     THEN [numbered EXCEPT !.expiryDate = numbered.prescriptionDate + 1]
     ELSE numbered

\* the required paths of the schema
validate(doc) ==
  /\ doc.prescriptionNumber # None
  /\ doc.patient # None
  /\ doc.prescriptionDate # NoDate
  /\ doc.expiryDate # NoDate

\* Model.create runs document validation and the pre('save') hook.  Their
\* order is the library's: Mongoose registers validation as the first
\* pre('save') hook, ahead of the hook the schema adds.  The other order is
\* the one in which the hook's generated number would satisfy the validator.
HookOrders == {"validate, pre-save", "pre-save, validate"}
create(doc, order) ==
  [ok |-> IF order = "validate, pre-save" THEN validate(doc) ELSE validate(preSave(doc)),
   doc |-> preSave(doc)]

\* the document uploadPrescription hands to Prescription.create
NewPrescription(u, meds, n, createdAt) ==
  [prescriptionNumber |-> None,
   patient |-> u,
   medications |-> meds,
   images |-> ImagesOf(n),
   extractedText |-> None,
   ocrConfidence |-> NoNumber,
   status |-> "uploaded",
   verificationStatus |-> DefaultVerification,
   prescriptionDate |-> UploadDate,
   expiryDate |-> UploadDate + 1,
   refillsUsed |-> 0,
   orders |-> {},
   priority |-> "normal",
   createdAt |-> createdAt]

\* Prescription.create(...) with status 'uploaded'
UploadPrescription(u, meds, n, hasRequired, order) ==
  /\ UNCHANGED shopVars
  /\ IF ~hasRequired
     THEN /\ Respond("uploadPrescription", u, 0, 400)
          /\ UNCHANGED <<prescriptions, rxCreated, tasks>>
     ELSE IF ~create(NewPrescription(u, meds, n, rxCreated + 1), order).ok
     THEN /\ Fail("uploadPrescription", u, 0, 500, "Prescription number is required")
          /\ UNCHANGED <<prescriptions, rxCreated, tasks>>
     ELSE /\ rxCreated + 1 \in RxIds
          /\ FreeTasks # {}
          /\ rxCreated' = rxCreated + 1
          /\ prescriptions' = prescriptions @@ (rxCreated + 1 :>
               create(NewPrescription(u, meds, n, rxCreated + 1), order).doc)
          /\ tasks' = [tasks EXCEPT ![NewTask] =
               [op |-> "uploadPrescription", user |-> u, id |-> rxCreated + 1, pc |-> "created",
                status |-> "uploaded", extractedText |-> None, ocrConfidence |-> NoNumber,
                images |-> ImagesOf(n), ocr |-> << >>, trace |-> <<"uploaded">>]]
          /\ Running("uploadPrescription", u, rxCreated + 1)

\* the handler ends: its slot is free again
Finish(t, code, logged, ocr) ==
  /\ tasks' = [tasks EXCEPT ![t] = NoTask]
  /\ response' = [op |-> tasks[t].op, user |-> tasks[t].user, id |-> tasks[t].id,
                  code |-> code, error |-> None, logged |-> logged, body |-> << >>,
                  ocr |-> ocr]
EndTask(t, code) == Finish(t, code, None, tasks[t].ocr)

\* first save after create: 'processing' when an image is present, else
\* 'pending_verification'.  save() of a document deleted meanwhile throws, the
\* catch block's save() throws again and the request ends in the error handler.
UploadSave(t) ==
  LET T == tasks[t]
      next == IF Len(T.images) > 0 THEN "processing" ELSE "pending_verification"
  IN /\ T.op = "uploadPrescription"
     /\ T.pc = "created"
     /\ UNCHANGED <<rxCreated, shopVars>>
     /\ IF ~Exists(T.id)
        THEN /\ EndTask(t, 500)
             /\ UNCHANGED prescriptions
        ELSE /\ prescriptions' = Save(T.id, [status |-> next])
             /\ tasks' = [tasks EXCEPT ![t].status = next,
                                       ![t].trace = Append(@, next),
                                       ![t].pc = IF next = "processing" THEN "ocr" ELSE "notify"]
             /\ Running(T.op, T.user, T.id)

\* mutant: the catch block forgets to move the record on
OcrChanges_FailureKeepsStatus(T, outcome) ==
  LET set == IF ~outcome.ok
             THEN << >>
             ELSE [extractedText |-> outcome.text, ocrConfidence |-> outcome.confidence,
                   status |-> "pending_verification"]
      modified == {f \in DOMAIN set : set[f] # T[f]}
  IN [f \in modified |-> set[f]]

\* the paths of the local document that differ from what OCR and the handler set
OcrChanges(T, outcome) ==
  LET set == IF ~outcome.ok
             THEN [status |-> "pending_verification"]
             ELSE [extractedText |-> outcome.text, ocrConfidence |-> outcome.confidence,
                   status |-> "pending_verification"]
      modified == {f \in DOMAIN set : set[f] # T[f]}
  IN [f \in modified |-> set[f]]

\* mutant: the image read is the last one of the upload
OcrImage_Last(images) == images[Len(images)]

\* the image handed to processOCR: images[0]
OcrImage(images) == images[1]

\* processOCR(images[0].url) returns or throws, then the second save
UploadOcr(t, outcome) ==
  LET T == tasks[t]
  IN /\ T.op = "uploadPrescription"
     /\ T.pc = "ocr"
     /\ UNCHANGED <<rxCreated, shopVars>>
     /\ IF ~Exists(T.id)
        THEN /\ Finish(t, 500, None, Append(T.ocr, OcrImage(T.images)))
             /\ UNCHANGED prescriptions
        ELSE /\ prescriptions' = Save(T.id, OcrChanges(T, outcome))
             /\ tasks' = [tasks EXCEPT ![t].status = "pending_verification",
                                       ![t].extractedText =
                                          IF outcome.ok THEN outcome.text ELSE @,
                                       ![t].ocrConfidence =
                                          IF outcome.ok THEN outcome.confidence ELSE @,
                                       ![t].trace = Append(@, "pending_verification"),
                                       ![t].ocr = Append(@, OcrImage(T.images)),
                                       ![t].pc = "notify"]
             /\ Running(T.op, T.user, T.id)

\* notify pharmacists (a failure is logged), then 201
UploadNotify(t, mailOk) ==
  /\ tasks[t].op = "uploadPrescription"
  /\ tasks[t].pc = "notify"
  /\ Finish(t, 201, IF mailOk THEN None ELSE "Failed to notify pharmacists", tasks[t].ocr)
  /\ UNCHANGED <<prescriptions, rxCreated, shopVars>>

----------------------------------------------------------------------------
(* reprocessPrescription *)

ReprocessPrescription(u, id) ==
  /\ UNCHANGED <<rxCreated, shopVars>>
  /\ IF ~authorize({"pharmacist", "admin"}, u)
     THEN Respond("reprocessPrescription", u, id, 403) /\ UNCHANGED <<prescriptions, tasks>>
     ELSE IF ~Exists(id)
     THEN Respond("reprocessPrescription", u, id, 404) /\ UNCHANGED <<prescriptions, tasks>>
     ELSE IF Len(prescriptions[id].images) = 0
     THEN Respond("reprocessPrescription", u, id, 400) /\ UNCHANGED <<prescriptions, tasks>>
     ELSE /\ FreeTasks # {}
          /\ prescriptions' =
               IF prescriptions[id].status # "processing"
               THEN Save(id, [status |-> "processing"])
               ELSE prescriptions
          /\ tasks' = [tasks EXCEPT ![NewTask] =
               [op |-> "reprocessPrescription", user |-> u, id |-> id, pc |-> "ocr",
                status |-> "processing",
                extractedText |-> prescriptions[id].extractedText,
                ocrConfidence |-> prescriptions[id].ocrConfidence,
                images |-> prescriptions[id].images, ocr |-> << >>,
                trace |-> <<prescriptions[id].status, "processing">>]]
          /\ Running("reprocessPrescription", u, id)

ReprocessOcr(t, outcome) ==
  LET T == tasks[t]
  IN /\ T.op = "reprocessPrescription"
     /\ T.pc = "ocr"
     /\ UNCHANGED <<rxCreated, shopVars>>
     /\ prescriptions' = Save(T.id, OcrChanges(T, outcome))
     /\ Finish(t, IF ~outcome.ok \/ ~Exists(T.id) THEN 500 ELSE 200, None,
               Append(T.ocr, OcrImage(T.images)))

----------------------------------------------------------------------------
(* updatePrescription, deletePrescription, verifyPrescription *)

\* request bodies of PUT /prescriptions/:id; the route validates only the id
ApprovedByBody ==
  [isVerified |-> TRUE, verifiedBy |-> None, verifiedAt |-> None,
   verificationNotes |-> None, rejectionReason |-> None]
UpdateBodies ==
  {<< >>}
  \cup {[status |-> s] : s \in {"verified", "rejected", "expired", "bogus"}}
  \cup {[orders |-> {"order1"}]}
  \cup {[verificationStatus |-> ApprovedByBody]}

\* runValidators: the enum of status
ValidBody(body) == "status" \in DOMAIN body => body.status \in Statuses

UpdatePrescription(u, id, body) ==
  /\ UNCHANGED <<rxCreated, tasks, shopVars>>
  /\ IF ~Exists(id)
     THEN Respond("updatePrescription", u, id, 404) /\ UNCHANGED prescriptions
     ELSE IF prescriptions[id].patient # u
     THEN Respond("updatePrescription", u, id, 403) /\ UNCHANGED prescriptions
     ELSE IF prescriptions[id].status = "verified"
     THEN Respond("updatePrescription", u, id, 400) /\ UNCHANGED prescriptions
     ELSE IF ~ValidBody(body)
     THEN Respond("updatePrescription", u, id, 500) /\ UNCHANGED prescriptions
     ELSE /\ prescriptions' = Save(id, body)
          /\ Respond("updatePrescription", u, id, 200)

\* mutant: the linked orders are not looked at
DeletePrescription_IgnoreOrders(u, id) ==
  /\ UNCHANGED <<rxCreated, tasks, shopVars>>
  /\ IF ~Exists(id)
     THEN Respond("deletePrescription", u, id, 404) /\ UNCHANGED prescriptions
     ELSE IF prescriptions[id].patient # u
     THEN Respond("deletePrescription", u, id, 403) /\ UNCHANGED prescriptions
     ELSE /\ prescriptions' = [i \in DOMAIN prescriptions \ {id} |-> prescriptions[i]]
          /\ Respond("deletePrescription", u, id, 200)

DeletePrescription(u, id) ==
  /\ UNCHANGED <<rxCreated, tasks, shopVars>>
  /\ IF ~Exists(id)
     THEN Respond("deletePrescription", u, id, 404) /\ UNCHANGED prescriptions
     ELSE IF prescriptions[id].patient # u
     THEN Respond("deletePrescription", u, id, 403) /\ UNCHANGED prescriptions
     ELSE IF prescriptions[id].orders # {}
     THEN Respond("deletePrescription", u, id, 400) /\ UNCHANGED prescriptions
     ELSE /\ prescriptions' = [i \in DOMAIN prescriptions \ {id} |-> prescriptions[i]]
          /\ Respond("deletePrescription", u, id, 200)

\* isApproved as the request carries it, written as its JavaScript literal: the
\* booleans of a JSON body and the string 'false' of a form-encoded one
\* (server.js parses both)
ApprovalValues == {"true", "false", "'false'"}

\* the condition of isApproved ? a : b (a non-empty string is truthy)
truthy(v) == v \in {"true", "'false'"}

\* the Boolean path isVerified casts what it is given
castBoolean(v) == v = "true"

\* what verifyPrescription writes for a decision
Decision(u, body) ==
  [verificationStatus |->
     [isVerified |-> castBoolean(body.isApproved),
      verifiedBy |-> u,
      verifiedAt |-> Now,
      verificationNotes |-> body.notes,
      rejectionReason |-> IF truthy(body.isApproved) THEN None ELSE body.rejectionReason],
   status |-> IF truthy(body.isApproved) THEN "verified" ELSE "rejected"]

\* request bodies of PATCH /prescriptions/:id/verify
VerifyBodies ==
  {[isApproved |-> "true", notes |-> "checked", rejectionReason |-> None],
   [isApproved |-> "true", notes |-> None, rejectionReason |-> None],
   [isApproved |-> "false", notes |-> None, rejectionReason |-> "illegible"],
   [isApproved |-> "false", notes |-> None, rejectionReason |-> None],
   [isApproved |-> "'false'", notes |-> None, rejectionReason |-> "illegible"]}

\* mutant: a mail that cannot be sent fails the request before the decision is saved
VerifyPrescription_MailFailureAborts(u, id, body, mailOk) ==
  /\ UNCHANGED <<rxCreated, tasks, shopVars>>
  /\ IF ~authorize({"pharmacist", "admin"}, u)
     THEN Respond("verifyPrescription", u, id, 403) /\ UNCHANGED prescriptions
     ELSE IF ~Exists(id)
     THEN Respond("verifyPrescription", u, id, 404) /\ UNCHANGED prescriptions
     ELSE IF prescriptions[id].status = "verified"
     THEN Respond("verifyPrescription", u, id, 400) /\ UNCHANGED prescriptions
     ELSE IF ~mailOk
     THEN /\ Answer("verifyPrescription", u, id, 500, "Email could not be sent",
                    "Failed to send verification email", << >>)
          /\ UNCHANGED prescriptions
     ELSE /\ prescriptions' = Save(id, Decision(u, body))
          /\ Respond("verifyPrescription", u, id, 200)

\* mutant: a verified record is decided again
VerifyPrescription_NoVerifiedCheck(u, id, body, mailOk) ==
  /\ UNCHANGED <<rxCreated, tasks, shopVars>>
  /\ IF ~authorize({"pharmacist", "admin"}, u)
     THEN Respond("verifyPrescription", u, id, 403) /\ UNCHANGED prescriptions
     ELSE IF ~Exists(id)
     THEN Respond("verifyPrescription", u, id, 404) /\ UNCHANGED prescriptions
     ELSE /\ prescriptions' = Save(id, Decision(u, body))
          /\ Respond("verifyPrescription", u, id, 200)

\* the patient is mailed afterwards; a failure of sendEmail is logged
VerifyPrescription(u, id, body, mailOk) ==
  /\ UNCHANGED <<rxCreated, tasks, shopVars>>
  /\ IF ~authorize({"pharmacist", "admin"}, u)
     THEN Respond("verifyPrescription", u, id, 403) /\ UNCHANGED prescriptions
     ELSE IF ~Exists(id)
     THEN Respond("verifyPrescription", u, id, 404) /\ UNCHANGED prescriptions
     ELSE IF prescriptions[id].status = "verified"
     THEN Respond("verifyPrescription", u, id, 400) /\ UNCHANGED prescriptions
     ELSE /\ prescriptions' = Save(id, Decision(u, body))
          /\ Answer("verifyPrescription", u, id, 200, None,
                    IF mailOk THEN None ELSE "Failed to send verification email", << >>)

----------------------------------------------------------------------------
(* the read handlers *)

\* the virtual remainingRefills
RECURSIVE SumRefills(_)
SumRefills(meds) ==
  IF meds = << >> THEN 0 ELSE Head(meds).refills + SumRefills(Tail(meds))

\* mutant: the difference is not floored
remainingRefills_NoFloor(doc) ==
  SumRefills(doc.medications) - doc.refillsUsed

remainingRefills(doc) ==
  LET left == SumRefills(doc.medications) - doc.refillsUsed
  IN IF left > 0 THEN left ELSE 0

\* toJSON with virtuals: what a response shows of a stored document
View(id) ==
  [id |-> id,
   patient |-> prescriptions[id].patient,
   status |-> prescriptions[id].status,
   priority |-> prescriptions[id].priority,
   createdAt |-> prescriptions[id].createdAt,
   remainingRefills |-> remainingRefills(prescriptions[id])]

\* the database compares the strings of a sort key code unit by code unit
Alphabet ==
  <<"a", "b", "c", "d", "e", "f", "g", "h", "i", "j", "k", "l", "m",
    "n", "o", "p", "q", "r", "s", "t", "u", "v", "w", "x", "y", "z">>
CodeUnit(c) == 96 + (CHOOSE i \in 1..Len(Alphabet) : Alphabet[i] = c)
Letters ==
  [p \in Priorities |->
     CASE p = "low" -> <<"l", "o", "w">>
       [] p = "normal" -> <<"n", "o", "r", "m", "a", "l">>
       [] p = "high" -> <<"h", "i", "g", "h">>
       [] p = "urgent" -> <<"u", "r", "g", "e", "n", "t">>]
RECURSIVE StringLess(_, _)
StringLess(a, b) ==
  IF b = << >> THEN FALSE
  ELSE IF a = << >> THEN TRUE
  ELSE IF CodeUnit(Head(a)) # CodeUnit(Head(b)) THEN CodeUnit(Head(a)) < CodeUnit(Head(b))
  ELSE StringLess(Tail(a), Tail(b))

\* .sort({ priority: -1, createdAt: 1 })
PendingBefore(x, y) ==
  \/ StringLess(Letters[prescriptions[y].priority], Letters[prescriptions[x].priority])
  \/ /\ prescriptions[x].priority = prescriptions[y].priority
     /\ prescriptions[x].createdAt < prescriptions[y].createdAt

\* .sort({ createdAt: -1 })
NewestBefore(x, y) == prescriptions[x].createdAt > prescriptions[y].createdAt

Before(sort, x, y) ==
  IF sort = "priority -1, createdAt 1" THEN PendingBefore(x, y) ELSE NewestBefore(x, y)

\* the documents of a cursor in the order of its sort
RECURSIVE Sorted(_, _)
Sorted(ids, sort) ==
  IF ids = {} THEN << >>
  ELSE LET first == CHOOSE x \in ids : \A y \in ids \ {x} : Before(sort, x, y)
       IN <<View(first)>> \o Sorted(ids \ {first}, sort)

GetPendingPrescriptions(u) ==
  /\ UNCHANGED <<rxVars, shopVars>>
  /\ IF ~authorize({"pharmacist", "admin"}, u)
     THEN Respond("getPendingPrescriptions", u, 0, 403)
     ELSE Answer("getPendingPrescriptions", u, 0, 200, None, None,
                 Sorted({id \in DOMAIN prescriptions :
                           prescriptions[id].status = "pending_verification"},
                        "priority -1, createdAt 1"))

GetUserPrescriptions(u) ==
  /\ UNCHANGED <<rxVars, shopVars>>
  /\ Answer("getUserPrescriptions", u, 0, 200, None, None,
            Sorted({id \in DOMAIN prescriptions : prescriptions[id].patient = u},
                   "createdAt -1"))

\* mutant: every authenticated caller may read the document
GetPrescription_NoOwnerCheck(u, id) ==
  /\ UNCHANGED <<rxVars, shopVars>>
  /\ IF ~Exists(id)
     THEN Respond("getPrescription", u, id, 404)
     ELSE Answer("getPrescription", u, id, 200, None, None, <<View(id)>>)

GetPrescription(u, id) ==
  /\ UNCHANGED <<rxVars, shopVars>>
  /\ IF ~Exists(id)
     THEN Respond("getPrescription", u, id, 404)
     ELSE IF prescriptions[id].patient # u /\ Role(u) \notin {"admin", "pharmacist"}
     THEN Respond("getPrescription", u, id, 403)
     ELSE Answer("getPrescription", u, id, 200, None, None, <<View(id)>>)

----------------------------------------------------------------------------
(* createOrder *)

\* String.prototype.toLowerCase
Capitals ==
  <<"A", "B", "C", "D", "E", "F", "G", "H", "I", "J", "K", "L", "M",
    "N", "O", "P", "Q", "R", "S", "T", "U", "V", "W", "X", "Y", "Z">>
UpperToLower ==
  [c \in {Capitals[i] : i \in 1..Len(Capitals)} |->
     Alphabet[CHOOSE i \in 1..Len(Capitals) : Capitals[i] = c]]
toLowerCase(s) ==
  [i \in 1..Len(s) |-> IF s[i] \in DOMAIN UpperToLower THEN UpperToLower[s[i]] ELSE s[i]]

\* String.prototype.includes
includes(s, sub) ==
  \E i \in 0..(Len(s) - Len(sub)) : SubSeq(s, i + 1, i + Len(sub)) = sub

\* med => med.name.toLowerCase().includes(product.name.toLowerCase()) || ...
NameMatches(med, productName) ==
  \/ includes(toLowerCase(med), toLowerCase(productName))
  \/ includes(toLowerCase(productName), toLowerCase(med))

\* p.medications.some(...) for one supplied prescription
SomeMedication(p, productName) ==
  \E i \in 1..Len(p.medications) : NameMatches(p.medications[i].name, productName)

\* prescriptions?.find(p => p.medications.some(...)): "pass" when an element
\* matches, "fail" when none does or the field is absent, "throw" when find
\* reaches an element that carries no medications array
PrescriptionGate(ps, productName) ==
  IF ~ps.present THEN "fail"
  ELSE LET hits == {i \in 1..Len(ps.list) :
                      ps.list[i].hasMedications /\ SomeMedication(ps.list[i], productName)}
           bare == {i \in 1..Len(ps.list) : ~ps.list[i].hasMedications}
       IN IF \E b \in bare : \A h \in hits : b < h THEN "throw"
          ELSE IF hits # {} THEN "pass"
          ELSE "fail"

\* cart lines and the prescriptions field of POST /orders
ProductRefs == {1, 2, 3, 4}     \* 4 names no product
Quantities == {1}
Items == [product : ProductRefs, quantity : Quantities]
ItemLists == UNION {[1..n -> Items] : n \in 0..MaxItems}
AmoxUpper == <<"A", "M", "O", "X">>
Supplied(meds) == [_id |-> 1, hasMedications |-> TRUE, medications |-> meds]
IdOnly == [_id |-> 1, hasMedications |-> FALSE, medications |-> << >>]
SuppliedPrescriptions ==
  {[present |-> FALSE, list |-> << >>],
   [present |-> TRUE, list |-> << >>],
   [present |-> TRUE, list |-> <<Supplied(<<[name |-> AmoxUpper]>>)>>],
   [present |-> TRUE, list |-> <<Supplied(<<[name |-> Ibuprofen]>>)>>],
   [present |-> TRUE, list |-> <<IdOnly>>],
   [present |-> TRUE, list |-> <<IdOnly, Supplied(<<[name |-> AmoxUpper]>>)>>]}

\* the units of product p the cart lines ask for
RECURSIVE Requested(_, _)
Requested(items, p) ==
  IF items = << >> THEN 0
  ELSE (IF Head(items).product = p THEN Head(items).quantity ELSE 0)
       + Requested(Tail(items), p)

\* room for one more order: at most maxOrders orders placed or being placed,
\* and at most maxReserved units of a product reserved
Room(items, maxOrders, maxReserved) ==
  /\ Len(orders) + Cardinality(OrderTaskIds \ FreeOrderTasks) < maxOrders
  /\ \A p \in DOMAIN products :
       products[p].stock.reserved + Requested(items, p) <= maxReserved

EndOrderTask(t, code, message) ==
  /\ orderTasks' = [orderTasks EXCEPT ![t] = NoTask]
  /\ Fail("createOrder", orderTasks[t].user, 0, code, message)

\* the checks before the loop
CreateOrder(u, items, ps, hasAddress) ==
  /\ UNCHANGED <<rxVars, products, orders>>
  /\ IF Len(items) = 0 \/ ~hasAddress
     THEN /\ Fail("createOrder", u, 0, 400,
                  IF Len(items) = 0 THEN "Order must contain at least one item"
                  ELSE "Shipping address is required")
          /\ UNCHANGED orderTasks
     ELSE /\ FreeOrderTasks # {}
          /\ orderTasks' = [orderTasks EXCEPT ![NewOrderTask] =
               [op |-> "createOrder", user |-> u, items |-> items, prescriptions |-> ps,
                pc |-> "find", line |-> 1, orderItems |-> << >>, reserved |-> 0,
                stockBefore |-> [p \in DOMAIN products |-> products[p].stock]]]
          /\ Running("createOrder", u, 0)

\* a variant that drops a prescription-only line without a matching
\* prescription from the order and carries on with the rest of the cart
OrderFindProduct_SkipsUnmatched(t) ==
  LET T == orderTasks[t]
      item == T.items[T.line]
      found == item.product \in DOMAIN products
      product == products[item.product]
      gate == IF product.prescriptionRequired
              THEN PrescriptionGate(T.prescriptions, product.name)
              ELSE "pass"
  IN /\ T.op = "createOrder"
     /\ T.pc = "find"
     /\ UNCHANGED <<rxVars, products, orders>>
     /\ IF ~found \/ ~product.isActive
        THEN EndOrderTask(t, 400, "Product not found or inactive")
        ELSE IF product.stock.quantity < item.quantity
        THEN EndOrderTask(t, 400, "Insufficient stock")
        ELSE IF gate # "pass"
        THEN /\ orderTasks' = [orderTasks EXCEPT
                  ![t].line = @ + 1,
                  ![t].pc = IF T.line = Len(T.items) THEN "create" ELSE "find"]
             /\ Running("createOrder", T.user, 0)
        ELSE /\ orderTasks' = [orderTasks EXCEPT
                  ![t].orderItems = Append(@,
                     [product |-> item.product, quantity |-> item.quantity,
                      prescriptionRequired |-> product.prescriptionRequired]),
                  ![t].reserved = product.stock.reserved + item.quantity,
                  ![t].pc = "save"]
             /\ Running("createOrder", T.user, 0)

\* one turn of the loop up to the reservation: Product.findById and the checks
OrderFindProduct(t) ==
  LET T == orderTasks[t]
      item == T.items[T.line]
      found == item.product \in DOMAIN products
      product == products[item.product]
      gate == IF product.prescriptionRequired
              THEN PrescriptionGate(T.prescriptions, product.name)
              ELSE "pass"
  IN /\ T.op = "createOrder"
     /\ T.pc = "find"
     /\ UNCHANGED <<rxVars, products, orders>>
     /\ IF ~found \/ ~product.isActive
        THEN EndOrderTask(t, 400, "Product not found or inactive")
        ELSE IF product.stock.quantity < item.quantity
        THEN EndOrderTask(t, 400, "Insufficient stock")
        ELSE IF gate = "throw"
        THEN EndOrderTask(t, 500, "TypeError")
        ELSE IF gate = "fail"
        THEN EndOrderTask(t, 400, "Prescription required")
        ELSE /\ orderTasks' = [orderTasks EXCEPT
                  ![t].orderItems = Append(@,
                     [product |-> item.product, quantity |-> item.quantity,
                      prescriptionRequired |-> product.prescriptionRequired]),
                  ![t].reserved = product.stock.reserved + item.quantity,
                  ![t].pc = "save"]
             /\ Running("createOrder", T.user, 0)

\* product.save() of the reservation, then the next cart line
OrderSaveProduct(t) ==
  LET T == orderTasks[t]
      item == T.items[T.line]
  IN /\ T.op = "createOrder"
     /\ T.pc = "save"
     /\ products' = [products EXCEPT ![item.product].stock.reserved = T.reserved]
     /\ orderTasks' = [orderTasks EXCEPT
          ![t].line = @ + 1,
          ![t].pc = IF T.line = Len(T.items) THEN "create" ELSE "find"]
     /\ Running("createOrder", T.user, 0)
     /\ UNCHANGED <<rxVars, orders>>

\* Order.create, the cart and the confirmation mail, then 201
OrderCreate(t, mailOk) ==
  LET T == orderTasks[t]
  IN /\ T.op = "createOrder"
     /\ T.pc = "create"
     /\ orders' = Append(orders,
          [customer |-> T.user,
           items |-> T.orderItems,
           prescriptions |-> [i \in 1..Len(T.prescriptions.list) |->
                                T.prescriptions.list[i]._id],
           status |-> "pending",
           statusHistory |-> << >>,
           payment |-> [stripePaymentIntentId |-> None]])
     /\ EndOrderTask(t, 201, None)
     /\ UNCHANGED <<rxVars, products>>

----------------------------------------------------------------------------
Next ==
  \/ \E u \in Uploaders, meds \in {<<Medication(Amoxicillin, 0)>>}, n \in 0..MaxImages,
        hasRequired \in BOOLEAN, order \in HookOrders :
        UploadPrescription(u, meds, n, hasRequired, order)
  \/ \E t \in TaskIds : UploadSave(t)
  \/ \E t \in TaskIds, outcome \in OcrOutcomes : UploadOcr(t, outcome)
  \/ \E t \in TaskIds, mailOk \in BOOLEAN : UploadNotify(t, mailOk)
  \/ \E u \in Users, id \in RxIds : ReprocessPrescription(u, id)
  \/ \E t \in TaskIds, outcome \in OcrOutcomes : ReprocessOcr(t, outcome)
  \/ \E u \in Users, id \in RxIds, body \in UpdateBodies : UpdatePrescription(u, id, body)
  \/ \E u \in Users, id \in RxIds : DeletePrescription(u, id)
  \/ \E u \in Users, id \in RxIds, body \in VerifyBodies, mailOk \in BOOLEAN :
        VerifyPrescription(u, id, body, mailOk)

Spec == Init /\ [][Next]_vars

\* the shop: orders against the catalog, next to a prescription entered
\* without images and the pharmacist's decisions on it
NextOrder ==
  \/ \E u \in Uploaders, items \in ItemLists, ps \in SuppliedPrescriptions,
        hasAddress \in BOOLEAN :
        Room(items, MaxOrders, MaxReserved) /\ CreateOrder(u, items, ps, hasAddress)
  \/ \E t \in OrderTaskIds : OrderFindProduct(t)
  \/ \E t \in OrderTaskIds : OrderSaveProduct(t)
  \/ \E t \in OrderTaskIds, mailOk \in BOOLEAN : OrderCreate(t, mailOk)
  \/ \E u \in Uploaders, order \in HookOrders :
        UploadPrescription(u, <<Medication(Amoxicillin, 0)>>, 0, TRUE, order)
  \/ \E t \in TaskIds : UploadSave(t)
  \/ \E t \in TaskIds : UploadNotify(t, TRUE)
  \/ \E u \in Staff, id \in RxIds, body \in VerifyBodies :
        VerifyPrescription(u, id, body, TRUE)

SpecOrder == Init /\ [][NextOrder]_vars

\* The OCR steps run once the awaited save or OCR call settles
FairSpec ==
  /\ Spec
  /\ WF_vars(\E t \in TaskIds : UploadSave(t))
  /\ WF_vars(\E t \in TaskIds, outcome \in OcrOutcomes : UploadOcr(t, outcome))

\* The queries over a collection of up to MaxStored documents that the two
\* patients own in turn, created in the order of their ids
OwnerOf(id) == IF id % 2 = 1 THEN "alice" ELSE "bob"
Stored(id, status, priority) ==
  [create(NewPrescription(OwnerOf(id), <<Medication(Amoxicillin, 0)>>, 0, id),
          "pre-save, validate").doc
     EXCEPT !.status = status, !.priority = priority]
QueryStores ==
  UNION {{[id \in 1..n |-> Stored(id, st[id], pr[id])] :
            st \in [1..n -> {"pending_verification", "verified"}],
            pr \in [1..n -> Priorities]} : n \in 0..MaxStored}

InitQuery ==
  /\ prescriptions \in QueryStores
  /\ rxCreated = Len(prescriptions)
  /\ Idle

NextQuery ==
  \/ \E u \in Callers : GetPendingPrescriptions(u)
  \/ \E u \in Callers : GetUserPrescriptions(u)
  \/ \E u \in Callers, id \in 1..MaxStored : GetPrescription(u, id)

SpecQuery == InitQuery /\ [][NextQuery]_vars

\* One stored document read back, over its medications' refills and its
\* refillsUsed
RefillLists ==
  UNION {[1..n -> {Medication(Amoxicillin, r) : r \in 0..MaxRefills}] : n \in 0..MaxMeds}
InitRefills ==
  /\ prescriptions \in
       {[id \in {1} |-> [Stored(1, "verified", "normal")
                           EXCEPT !.medications = meds, !.refillsUsed = used]] :
          meds \in RefillLists, used \in 0..MaxRefillsUsed}
  /\ rxCreated = 1
  /\ Idle

NextRefills ==
  \/ \E u \in Callers : GetPrescription(u, 1)
  \/ \E u \in Callers : GetUserPrescriptions(u)

SpecRefills == InitRefills /\ [][NextRefills]_vars

\* The dates of one record: an upload without images and updates whose bodies
\* name a prescription date or an expiry date
Dates == 0..MaxDate
DateBodies ==
  {[expiryDate |-> d] : d \in Dates} \cup {[prescriptionDate |-> d] : d \in Dates}

NextDates ==
  \/ \E u \in Uploaders, order \in HookOrders :
        UploadPrescription(u, <<Medication(Amoxicillin, 0)>>, 0, TRUE, order)
  \/ \E t \in TaskIds : UploadSave(t)
  \/ \E t \in TaskIds, mailOk \in BOOLEAN : UploadNotify(t, mailOk)
  \/ \E u \in Users, id \in RxIds, body \in DateBodies : UpdatePrescription(u, id, body)

SpecDates == Init /\ [][NextDates]_vars

\* Orders placed side by side: up to MaxRaceTasks createOrder handlers in
\* flight, each with a one-line cart of the same in-stock product
StockCarts == {<<[product |-> 2, quantity |-> q]>> : q \in 1..Catalog[2].stock.quantity}

InitStock ==
  /\ prescriptions = << >>
  /\ rxCreated = 0
  /\ tasks = [t \in TaskIds |-> NoTask]
  /\ response = [op |-> "none", user |-> None, id |-> 0, code |-> 0, error |-> None,
                 logged |-> None, body |-> << >>, ocr |-> << >>]
  /\ products = Catalog
  /\ orders = << >>
  /\ orderTasks = [t \in 1..MaxRaceTasks |-> NoTask]

NextStock ==
  \/ \E u \in Patients, items \in StockCarts :
        /\ Room(items, MaxRaceOrders, MaxRaceReserved)
        /\ CreateOrder(u, items, [present |-> FALSE, list |-> << >>], TRUE)
  \/ \E t \in OrderTaskIds : OrderFindProduct(t)
  \/ \E t \in OrderTaskIds : OrderSaveProduct(t)
  \/ \E t \in OrderTaskIds, mailOk \in BOOLEAN : OrderCreate(t, mailOk)

SpecStock == InitStock /\ [][NextStock]_vars

----------------------------------------------------------------------------
(* updateOrderStatus, cancelOrder, confirmPayment and the Stripe webhook.     *)
(* Each request is taken as one step: the claims on these handlers are about  *)
(* sequences of completed requests.                                           *)

\* the order statuses the handlers name
OrderStatuses == {"pending", "confirmed", "cancelled", "delivered"}
cancellableStatuses == {"pending", "confirmed", "prescription_verification"}

\* product.save() runs the validators of stock: min 0 on both counts
ValidStock(stock) == stock.quantity >= 0 /\ stock.reserved >= 0

Max(a, b) == IF a >= b THEN a ELSE b

\* case 'confirmed': every item is taken from the stock and from the
\* reservations, product by product; a save() that fails validation throws
\* and leaves the products saved before it as they are
RECURSIVE DeductStock(_, _)
DeductStock(ps, items) ==
  IF items = << >> THEN [ok |-> TRUE, products |-> ps]
  ELSE LET item == Head(items)
           stock == [quantity |-> ps[item.product].stock.quantity - item.quantity,
                     reserved |-> Max(0, ps[item.product].stock.reserved - item.quantity)]
       IN IF item.product \notin DOMAIN ps THEN DeductStock(ps, Tail(items))
          ELSE IF ~ValidStock(stock) THEN [ok |-> FALSE, products |-> ps]
          ELSE DeductStock([ps EXCEPT ![item.product].stock = stock], Tail(items))

\* case 'cancelled' and cancelOrder: the reservations of every item are released
RECURSIVE ReleaseStock(_, _)
ReleaseStock(ps, items) ==
  IF items = << >> THEN ps
  ELSE LET item == Head(items)
       IN IF item.product \notin DOMAIN ps THEN ReleaseStock(ps, Tail(items))
          ELSE ReleaseStock(
                 [ps EXCEPT ![item.product].stock.reserved = Max(0, @ - item.quantity)],
                 Tail(items))

HistoryEntry(status, note, u) == [status |-> status, note |-> note, updatedBy |-> u]

\* PATCH /orders/:id/status, for admins and pharmacists
UpdateOrderStatus(u, i, status) ==
  /\ UNCHANGED <<rxVars, orderTasks>>
  /\ IF ~authorize({"admin", "pharmacist"}, u)
     THEN Respond("updateOrderStatus", u, i, 403) /\ UNCHANGED <<products, orders>>
     ELSE IF i \notin DOMAIN orders
     THEN Respond("updateOrderStatus", u, i, 404) /\ UNCHANGED <<products, orders>>
     ELSE LET deducted == DeductStock(products, orders[i].items)
          IN /\ Len(orders[i].statusHistory) < MaxHistory
             /\ IF status = "confirmed" /\ ~deducted.ok
                THEN /\ products' = deducted.products
                     /\ UNCHANGED orders
                     /\ Respond("updateOrderStatus", u, i, 500)
                ELSE /\ products' =
                          IF status = "confirmed" THEN deducted.products
                          ELSE IF status = "cancelled"
                          THEN ReleaseStock(products, orders[i].items)
                          ELSE products
                     /\ orders' = [orders EXCEPT
                          ![i].status = status,
                          ![i].statusHistory = Append(@, HistoryEntry(status, None, u))]
                     /\ Respond("updateOrderStatus", u, i, 200)

\* PATCH /orders/:id/cancel, for the customer of the order
CancelOrder(u, i) ==
  /\ UNCHANGED <<rxVars, orderTasks>>
  /\ IF i \notin DOMAIN orders
     THEN Respond("cancelOrder", u, i, 404) /\ UNCHANGED <<products, orders>>
     ELSE IF orders[i].customer # u
     THEN Respond("cancelOrder", u, i, 403) /\ UNCHANGED <<products, orders>>
     ELSE IF orders[i].status \notin cancellableStatuses
     THEN Respond("cancelOrder", u, i, 400) /\ UNCHANGED <<products, orders>>
     ELSE /\ Len(orders[i].statusHistory) < MaxHistory
          /\ products' = ReleaseStock(products, orders[i].items)
          /\ orders' = [orders EXCEPT
               ![i].status = "cancelled",
               ![i].statusHistory =
                  Append(@, HistoryEntry("cancelled", "Cancelled by customer", u))]
          /\ Respond("cancelOrder", u, i, 200)

\* Order.findOne({'payment.stripePaymentIntentId': id}): 0 when no order has it
OrderOfIntent(intent) ==
  LET hits == {i \in DOMAIN orders : orders[i].payment.stripePaymentIntentId = intent}
  IN IF hits = {} THEN 0 ELSE CHOOSE i \in hits : \A j \in hits : i <= j

PaymentIntents == {"pi_1", "pi_2"}

\* POST /payments/confirm by any signed-in user; Stripe says whether the
\* intent succeeded
ConfirmPayment(u, intent, succeeded) ==
  LET i == OrderOfIntent(intent)
  IN /\ UNCHANGED <<rxVars, orderTasks, products>>
     /\ IF ~succeeded
        THEN Respond("confirmPayment", u, i, 400) /\ UNCHANGED orders
        ELSE IF i = 0
        THEN Respond("confirmPayment", u, i, 404) /\ UNCHANGED orders
        ELSE /\ Len(orders[i].statusHistory) < MaxHistory
             /\ orders' = [orders EXCEPT
                  ![i].status = "confirmed",
                  ![i].statusHistory =
                     Append(@, HistoryEntry("confirmed", "Payment confirmed", None))]
             /\ Respond("confirmPayment", u, i, 200)

\* POST /payments/webhook with the event payment_intent.succeeded; a bad
\* signature is answered 400
HandleWebhook(intent, signed) ==
  LET i == OrderOfIntent(intent)
  IN /\ UNCHANGED <<rxVars, orderTasks, products>>
     /\ IF ~signed
        THEN Respond("handleWebhook", None, i, 400) /\ UNCHANGED orders
        ELSE /\ orders' = IF i = 0 THEN orders ELSE [orders EXCEPT ![i].status = "confirmed"]
             /\ Respond("handleWebhook", None, i, 200)

\* two placed orders of one unit of the same product, each with its payment
\* intent, and the two units reserved
PlacedOrder(u, intent) ==
  [customer |-> u,
   items |-> <<[product |-> 2, quantity |-> 1, prescriptionRequired |-> FALSE]>>,
   prescriptions |-> << >>,
   status |-> "pending",
   statusHistory |-> << >>,
   payment |-> [stripePaymentIntentId |-> intent]]

InitFulfil ==
  /\ prescriptions = << >>
  /\ rxCreated = 0
  /\ tasks = [t \in TaskIds |-> NoTask]
  /\ response = [op |-> "none", user |-> None, id |-> 0, code |-> 0, error |-> None,
                 logged |-> None, body |-> << >>, ocr |-> << >>]
  /\ products = [Catalog EXCEPT ![2].stock.reserved = 2]
  /\ orders = <<PlacedOrder("alice", "pi_1"), PlacedOrder("bob", "pi_2")>>
  /\ orderTasks = [t \in 1..MaxOrderTasks |-> NoTask]

NextFulfil ==
  \/ \E u \in Users, i \in 1..MaxPlaced, status \in OrderStatuses :
        UpdateOrderStatus(u, i, status)
  \/ \E u \in Users, i \in 1..MaxPlaced : CancelOrder(u, i)
  \/ \E u \in Patients, intent \in PaymentIntents, succeeded \in BOOLEAN :
        ConfirmPayment(u, intent, succeeded)
  \/ \E intent \in PaymentIntents, signed \in BOOLEAN : HandleWebhook(intent, signed)

SpecFulfil == InitFulfil /\ [][NextFulfil]_vars

----------------------------------------------------------------------------
(* The OCR text parsers: extractPrescriptionData of the backend and           *)
(* parsePrescriptionText of the upload page.  A text is the sequence of its   *)
(* lines (text.split('\n')), a line the sequence of its characters.           *)

Whitespace == {" "}

RECURSIVE trimStart(_)
trimStart(s) ==
  IF s # << >> /\ Head(s) \in Whitespace THEN trimStart(Tail(s)) ELSE s
RECURSIVE trimEnd(_)
trimEnd(s) ==
  IF s # << >> /\ s[Len(s)] \in Whitespace THEN trimEnd(SubSeq(s, 1, Len(s) - 1)) ELSE s
\* String.prototype.trim
trim(s) == trimEnd(trimStart(s))

\* text.split('\n').filter(line => line.trim()): the blank lines are dropped
RECURSIVE NonBlank(_)
NonBlank(lines) ==
  IF lines = << >> THEN << >>
  ELSE IF trim(Head(lines)) = << >> THEN NonBlank(Tail(lines))
  ELSE <<Head(lines)>> \o NonBlank(Tail(lines))

\* the position of the first colon of the line, 0 when it has none
FirstColon(line) ==
  IF \E i \in 1..Len(line) : line[i] = ":"
  THEN CHOOSE i \in 1..Len(line) : line[i] = ":" /\ \A j \in 1..(i - 1) : line[j] # ":"
  ELSE 0

\* line.replace(/^[^:]*:?\s*/, ''): [^:]* is greedy and takes everything up to
\* the first colon, or the whole line when there is no colon; then the colon
\* and the whitespace after it go
StripLabel(line) ==
  IF FirstColon(line) = 0 THEN << >>
  ELSE trimStart(SubSeq(line, FirstColon(line) + 1, Len(line)))

\* lowerLine.includes(keyword) for some keyword of the list
HasKeyword(line, keywords) ==
  \E k \in 1..Len(keywords) : includes(toLowerCase(line), keywords[k])

\* what the two parsers return when no line matches
NotDetected == <<"N", "o", "t", " ", "d", "e", "t", "e", "c", "t", "e", "d">>
Sentinel ==
  [backend |-> [kind |-> "null", chars |-> << >>],
   frontend |-> [kind |-> "string", chars |-> NotDetected]]

\* extractField: the first line, in document order, that holds a keyword
extractField(side, lines, keywords) ==
  LET hits == {i \in 1..Len(lines) : HasKeyword(lines[i], keywords)}
  IN IF hits = {} THEN Sentinel[side]
     ELSE LET first == CHOOSE i \in hits : \A j \in hits : i <= j
          IN [kind |-> "string", chars |-> trim(StripLabel(lines[first]))]

\* the keyword lists of the fields both parsers read
FieldKeywords ==
  [doctorName |-> [backend |-> <<<<"d", "r">>, <<"d", "o", "c", "t", "o", "r">>, <<"p", "h", "y", "s", "i", "c", "i", "a", "n">>, <<"m", "d">>>>,
                   frontend |-> <<<<"d", "r">>, <<"d", "o", "c", "t", "o", "r">>, <<"p", "h", "y", "s", "i", "c", "i", "a", "n">>>>],
   date |-> [backend |-> <<<<"d", "a", "t", "e">>, <<"d", "a", "t", "e", "d">>>>,
             frontend |-> <<<<"d", "a", "t", "e">>>>],
   diagnosis |-> [backend |-> <<<<"d", "i", "a", "g", "n", "o", "s", "i", "s">>, <<"c", "o", "n", "d", "i", "t", "i", "o", "n">>, <<"c", "o", "m", "p", "l", "a", "i", "n", "t">>>>,
                  frontend |-> <<<<"d", "i", "a", "g", "n", "o", "s", "i", "s">>, <<"c", "o", "n", "d", "i", "t", "i", "o", "n">>>>]]

\* lines an OCR run can give: labelled, unlabelled, with a second colon, with
\* the keyword in capitals, blank, and without any keyword
OcrLines ==
  {<<"D", "r", ":", " ", "J", "o">>,
   <<"D", "r", " ", "J", "o", " ">>,
   <<"D", "a", "t", "e", ":", " ", "1", ":", "2">>,
   <<"M", "D", " ", ":", " ", "A", "l">>,
   <<" ">>,
   <<"F", "l", "u">>}

\* one field of the parsed text, read from the text the record stores
ExtractField(side, field) ==
  /\ Exists(1)
  /\ Answer("extractField", side, 1, 200, None, None,
            <<extractField(side, NonBlank(prescriptions[1].extractedText),
                           FieldKeywords[field][side])>>)
  /\ UNCHANGED <<rxVars, shopVars>>

InitParse ==
  /\ prescriptions \in
       {[id \in {1} |-> [Stored(1, "pending_verification", "normal")
                           EXCEPT !.extractedText = text]] : text \in UNION {[1..n -> OcrLines] : n \in 0..MaxLines}}
  /\ rxCreated = 1
  /\ Idle

NextParse == \E side \in DOMAIN Sentinel, field \in DOMAIN FieldKeywords : ExtractField(side, field)

SpecParse == InitParse /\ [][NextParse]_vars

----------------------------------------------------------------------------
(* extractMedications of the backend parser: dosage, frequency and duration  *)
(* of every line that names a medication form.  The patterns carry the /i    *)
(* flag and are matched on the lowercased line.                               *)

Digits == {"0", "1", "2", "3", "4", "5", "6", "7", "8", "9"}
IsDigit(L, i) == i \in 1..Len(L) /\ L[i] \in Digits

\* the last position of the run of digits that starts at i
RECURSIVE RunEnd(_, _)
RunEnd(L, i) == IF IsDigit(L, i + 1) THEN RunEnd(L, i + 1) ELSE i

\* \s*: the first position from p on that holds no whitespace
RECURSIVE SkipWs(_, _)
SkipWs(L, p) == IF p \in 1..Len(L) /\ L[p] \in Whitespace THEN SkipWs(L, p + 1) ELSE p

\* the literal lit stands at position p
At(L, p, lit) == p >= 1 /\ p + Len(lit) - 1 <= Len(L) /\ SubSeq(L, p, p + Len(lit) - 1) = lit

\* the leftmost position a pattern matches at, 0 when it matches nowhere
Leftmost(starts) == IF starts = {} THEN 0 ELSE CHOOSE i \in starts : \A j \in starts : i <= j

\* (\d+)\s*times?\s* matched from the digit at i: the position after it, 0
\* when it does not match
AfterTimes(L, i) ==
  LET a == SkipWs(L, RunEnd(L, i) + 1)
  IN IF ~IsDigit(L, i) \/ ~At(L, a, <<"t", "i", "m", "e">>) THEN 0
     ELSE SkipWs(L, IF At(L, a + 4, <<"s">>) THEN a + 5 ELSE a + 4)

\* the ordered pattern list of extractFrequency
frequencyPatterns ==
  <<"N times a day", "N times daily", "once daily", "twice daily", "thrice daily",
    "bid", "tid", "qid">>

Named ==
  [once |-> <<"o", "n", "c", "e">>, twice |-> <<"t", "w", "i", "c", "e">>, thrice |-> <<"t", "h", "r", "i", "c", "e">>,
   bid |-> <<"b", "i", "d">>, tid |-> <<"t", "i", "d">>, qid |-> <<"q", "i", "d">>,
   daily |-> <<"d", "a", "i", "l", "y">>, day |-> <<"d", "a", "y">>]

\* the positions pattern p matches at
MatchStarts(L, p) ==
  {i \in 1..Len(L) :
     CASE p = 1 -> /\ AfterTimes(L, i) # 0
                   /\ \/ At(L, AfterTimes(L, i), Named.day)
                      \/ /\ At(L, AfterTimes(L, i), <<"a">>)
                         /\ At(L, SkipWs(L, AfterTimes(L, i) + 1), Named.day)
       [] p = 2 -> AfterTimes(L, i) # 0 /\ At(L, AfterTimes(L, i), Named.daily)
       [] p = 3 -> At(L, i, Named.once) /\ At(L, SkipWs(L, i + 4), Named.daily)
       [] p = 4 -> At(L, i, Named.twice) /\ At(L, SkipWs(L, i + 5), Named.daily)
       [] p = 5 -> At(L, i, Named.thrice) /\ At(L, SkipWs(L, i + 6), Named.daily)
       [] p = 6 -> At(L, i, Named.bid)
       [] p = 7 -> At(L, i, Named.tid)
       [] p = 8 -> At(L, i, Named.qid)}

\* the strings extractFrequency returns
Frequency ==
  [times |-> <<" ", "t", "i", "m", "e", "s", " ", "d", "a", "i", "l", "y">>,
   once |-> <<"O", "n", "c", "e", " ", "d", "a", "i", "l", "y">>,
   twice |-> <<"T", "w", "i", "c", "e", " ", "d", "a", "i", "l", "y">>,
   three |-> <<"T", "h", "r", "e", "e", " ", "t", "i", "m", "e", "s", " ", "d", "a", "i", "l", "y">>,
   four |-> <<"F", "o", "u", "r", " ", "t", "i", "m", "e", "s", " ", "d", "a", "i", "l", "y">>]

\* the body of the loop for a pattern that matched: the captured number if the
\* pattern has one, else the first of the words the whole line includes;
\* "next" when neither gives a result and the loop goes on
OnMatch(L, p) ==
  IF p \in {1, 2}
  THEN LET i == Leftmost(MatchStarts(L, p)) IN SubSeq(L, i, RunEnd(L, i)) \o Frequency.times
  ELSE IF includes(L, Named.once) THEN Frequency.once
  ELSE IF includes(L, Named.twice) THEN Frequency.twice
  ELSE IF includes(L, Named.thrice) THEN Frequency.three
  ELSE IF includes(L, Named.bid) THEN Frequency.twice
  ELSE IF includes(L, Named.tid) THEN Frequency.three
  ELSE IF includes(L, Named.qid) THEN Frequency.four
  ELSE <<"next">>

RECURSIVE FrequencyFrom(_, _)
FrequencyFrom(L, p) ==
  IF p > Len(frequencyPatterns) THEN << >>
  ELSE IF MatchStarts(L, p) # {} /\ OnMatch(L, p) # <<"next">> THEN OnMatch(L, p)
  ELSE FrequencyFrom(L, p + 1)

extractFrequency(line) == FrequencyFrom(toLowerCase(line), 1)

\* (\d+(?:\.\d+)?)\s*(mg|ml|g|mcg|iu): the alternatives are tried in this order
DosageUnits == <<<<"m", "g">>, <<"m", "l">>, <<"g">>, <<"m", "c", "g">>, <<"i", "u">>>>
UnitAt(L, p, units) ==
  LET hits == {k \in 1..Len(units) : At(L, p, units[k])}
  IN IF hits = {} THEN << >> ELSE units[Leftmost(hits)]

\* the end of the number that starts at i, with its decimals when a unit
\* follows them, else without
NumberEnd(L, i) ==
  LET e == RunEnd(L, i)
      withDecimals == IF At(L, e + 1, <<".">>) /\ IsDigit(L, e + 2) THEN RunEnd(L, e + 2) ELSE e
  IN IF UnitAt(L, SkipWs(L, withDecimals + 1), DosageUnits) # << >> THEN withDecimals ELSE e

extractDosage(line) ==
  LET L == toLowerCase(line)
      i == Leftmost({j \in 1..Len(L) :
             IsDigit(L, j) /\ UnitAt(L, SkipWs(L, NumberEnd(L, j) + 1), DosageUnits) # << >>})
  IN IF i = 0 THEN << >>
     ELSE SubSeq(L, i, NumberEnd(L, i)) \o UnitAt(L, SkipWs(L, NumberEnd(L, i) + 1), DosageUnits)

\* (?:for\s*)?(\d+)\s*(days?|weeks?|months?): the plural is taken when it is there
DurationUnits == <<<<"d", "a", "y", "s">>, <<"d", "a", "y">>, <<"w", "e", "e", "k", "s">>, <<"w", "e", "e", "k">>, <<"m", "o", "n", "t", "h", "s">>, <<"m", "o", "n", "t", "h">>>>
extractDuration(line) ==
  LET L == toLowerCase(line)
      i == Leftmost({j \in 1..Len(L) :
             IsDigit(L, j) /\ UnitAt(L, SkipWs(L, RunEnd(L, j) + 1), DurationUnits) # << >>})
  IN IF i = 0 THEN << >>
     ELSE SubSeq(L, i, RunEnd(L, i)) \o <<" ">>
            \o UnitAt(L, SkipWs(L, RunEnd(L, i) + 1), DurationUnits)

medicationKeywords ==
  <<<<"t", "a", "b", "l", "e", "t">>, <<"c", "a", "p", "s", "u", "l", "e">>, <<"s", "y", "r", "u", "p">>, <<"m", "g">>, <<"m", "l">>, <<"d", "o", "s", "e">>, <<"t", "a", "b">>, <<"c", "a", "p">>>>

\* line.split(/\s+/)[0]: what stands before the first whitespace
FirstPart(line) ==
  LET ws == {i \in 1..Len(line) : line[i] \in Whitespace}
  IN IF ws = {} THEN line ELSE SubSeq(line, 1, Leftmost(ws) - 1)

\* the lines a medication is pushed for: a medication keyword in the line and
\* a name at its start
IsMedicationLine(line) == HasKeyword(line, medicationKeywords) /\ FirstPart(line) # << >>

extractMedications(lines) ==
  LET found == SelectSeq(lines, IsMedicationLine)
  IN [k \in 1..Len(found) |->
        [name |-> FirstPart(found[k]), dosage |-> extractDosage(found[k]),
         frequency |-> extractFrequency(found[k]), duration |-> extractDuration(found[k])]]

\* medication lines an OCR run can give
MedLines ==
  {<<"A", "m", "o", "x", "i", "c", "i", "l", "l", "i", "n", " ", "2", "5", "0", "m", "g", " ", "t", "a", "b", "l", "e", "t", " ", "t", "w", "i", "c", "e", " ", "d", "a", "i", "l", "y", " ", "f", "o", "r", " ", "7", " ", "d", "a", "y", "s">>,
   <<"C", "o", "n", "c", "e", "r", "t", "a", " ", "1", "8", "m", "g", " ", "t", "w", "i", "c", "e", " ", "d", "a", "i", "l", "y">>,
   <<"I", "b", "u", " ", "2", "0", "0", " ", "m", "g", " ", "3", " ", "t", "i", "m", "e", "s", " ", "a", " ", "d", "a", "y">>,
   <<"C", "a", "p", " ", "2", ".", "5", "m", "l", " ", "T", "I", "D", " ", "2", " ", "w", "e", "e", "k", "s">>,
   <<"S", "y", "r", "u", "p", " ", "1", "0", "m", "l">>,
   <<"T", "a", "b", " ", "1", "g", " ", "2", " ", "t", "i", "m", "e", "s", " ", "d", "a", "i", "l", "y", " ", "f", "o", "r", " ", "1", " ", "d", "a", "y">>,
   <<"T", "a", "b", " ", "5", "m", "c", "g", " ", "o", "n", "c", "e", " ", "d", "a", "i", "l", "y">>,
   <<" ">>,
   <<"R", "e", "s", "t">>}

\* the medications of the parsed text, read from the text the record stores
ExtractMedications ==
  /\ Exists(1)
  /\ Answer("extractMedications", "backend", 1, 200, None, None,
            extractMedications(NonBlank(prescriptions[1].extractedText)))
  /\ UNCHANGED <<rxVars, shopVars>>

InitMeds ==
  /\ prescriptions \in
       {[id \in {1} |-> [Stored(1, "pending_verification", "normal")
                           EXCEPT !.extractedText = text]] : text \in UNION {[1..n -> MedLines] : n \in 0..MaxMedLines}}
  /\ rxCreated = 1
  /\ Idle

NextMeds == ExtractMedications

SpecMeds == InitMeds /\ [][NextMeds]_vars

----------------------------------------------------------------------------
(* Prescription lifecycle claims *)

\* the document with this id is stored before and after the step
Kept(id) == id \in DOMAIN prescriptions /\ id \in DOMAIN prescriptions'

\* C2: once a record is verified, no step moves its status back to a
\* pre-verification status
C2_VerifiedNeverRegresses ==
  [][\A id \in RxIds :
       (Kept(id) /\ prescriptions[id].status = "verified")
         => prescriptions'[id].status \notin PreVerification]_vars

\* C3: a record's status becomes verified or rejected only by a step of
\* verifyPrescription, never by a field update
C3_DecisionOnlyByVerify ==
  [][\A id \in RxIds :
       (/\ Kept(id)
        /\ prescriptions'[id].status \in {"verified", "rejected"}
        /\ prescriptions'[id].status # prescriptions[id].status)
         => response'.op = "verifyPrescription"]_vars

\* C4: a decision of verifyPrescription is taken only on a record that is in
\* pending_verification
C4_DecisionFromPendingVerification ==
  [][\A id \in RxIds :
       (/\ Kept(id)
        /\ response'.op = "verifyPrescription" /\ response'.id = id
        /\ response'.code = 200)
         => prescriptions[id].status = "pending_verification"]_vars

\* a step of verifyPrescription, past the role check, on a verified record
ReVerify(id) ==
  /\ id \in DOMAIN prescriptions
  /\ prescriptions[id].status = "verified"
  /\ response'.op = "verifyPrescription" /\ response'.id = id
  /\ authorize({"pharmacist", "admin"}, response'.user)

C6_OnlyOwnerMutatesUnverified ==
  [][\A id \in RxIds :
       (Kept(id) /\ prescriptions'[id] # prescriptions[id])
         => \/ response'.op = "verifyPrescription"
            \/ /\ response'.user = prescriptions[id].patient
               /\ prescriptions[id].status # "verified"]_vars

\* C7: a record disappears only by deletePrescription of its owner while no
\* order is linked; a delete by someone else or with a linked order is
\* answered 403 or 400 and keeps the record; a delete by the owner of a
\* record with no linked order that is not verified removes it
C7_DeleteOnlyByOwnerWithoutOrders ==
  [][\A id \in RxIds :
       /\ (Exists(id) /\ id \notin DOMAIN prescriptions')
            => /\ response'.op = "deletePrescription"
               /\ response'.user = prescriptions[id].patient
               /\ response'.id = id
               /\ response'.code = 200
               /\ prescriptions[id].orders = {}
       /\ (Exists(id) /\ response'.op = "deletePrescription" /\ response'.id = id)
            => /\ (response'.user # prescriptions[id].patient
                     \/ prescriptions[id].orders # {})
                    => /\ response'.code \in {400, 403}
                       /\ prescriptions' = prescriptions
               /\ (/\ response'.user = prescriptions[id].patient
                   /\ prescriptions[id].orders = {}
                   /\ prescriptions[id].status # "verified")
                    => /\ response'.code = 200
                       /\ id \notin DOMAIN prescriptions']_vars

C7_Witness ==
  /\ response.op = "deletePrescription" /\ response.code = 400
  /\ Exists(response.id)
  /\ prescriptions[response.id].patient = response.user
  /\ prescriptions[response.id].orders # {}

\* the step in which uploadPrescription issues its last save, or fails on it
UploadSettles(t) ==
  /\ tasks[t].op = "uploadPrescription"
  /\ tasks[t].pc \in {"created", "ocr"}
  /\ tasks'[t] # tasks[t]
  /\ tasks'[t].op = "uploadPrescription" => tasks'[t].pc = "notify"

\* the statuses the handler has written, by the number of images
UploadPath(T) ==
  IF Len(T.images) > 0
  THEN <<"uploaded", "processing", "pending_verification">>
  ELSE <<"uploaded", "pending_verification">>

UploadSettled(t) ==
  LET id == tasks[t].id
  IN /\ id \in DOMAIN prescriptions'
     /\ prescriptions'[id].status = "pending_verification"
     /\ tasks'[t].op = "uploadPrescription"
     /\ tasks'[t].trace = UploadPath(tasks[t])

UploadRunning(t) ==
  tasks[t].op = "uploadPrescription" /\ tasks[t].pc \in {"created", "ocr"}

\* C8 as claimed: every upload that created its record leaves it in
\* pending_verification, through processing exactly when an image is present
C8_UploadReachesPendingVerification ==
  [][\A t \in TaskIds : UploadSettles(t) => UploadSettled(t)]_vars

\* C8 amended: the same for every upload whose record is still stored when the
\* handler issues its last save, and every upload gets that far
C8_UploadReachesPendingUnlessDeleted ==
  /\ [][\A t \in TaskIds :
          (UploadSettles(t) /\ Exists(tasks[t].id)) => UploadSettled(t)]_vars
  /\ \A t \in TaskIds : UploadRunning(t) ~> ~UploadRunning(t)

\* an upload with an image whose OCR call failed is waiting to notify
C8_Witness ==
  \E t \in TaskIds :
    /\ tasks[t].op = "uploadPrescription" /\ tasks[t].pc = "notify"
    /\ Len(tasks[t].images) > 0
    /\ tasks[t].extractedText = None
    /\ Exists(tasks[t].id)
    /\ prescriptions[tasks[t].id].status = "pending_verification"

\* C9: when reprocessPrescription ends, the record has the status it had when
\* the handler read it, and the last step leaves the verification sub-record alone
C9_ReprocessKeepsStatus ==
  [][\A t \in TaskIds :
       (/\ tasks[t].op = "reprocessPrescription"
        /\ tasks'[t].op = "idle"
        /\ Kept(tasks[t].id))
         => /\ prescriptions'[tasks[t].id].status = tasks[t].trace[1]
            /\ prescriptions'[tasks[t].id].verificationStatus
                 = prescriptions[tasks[t].id].verificationStatus]_vars

----------------------------------------------------------------------------
(* Order gate claims *)

\* an approved prescription among those the order links covers the product
Covered(order, productName) ==
  \E j \in 1..Len(order.prescriptions) :
    LET id == order.prescriptions[j]
    IN /\ Exists(id)
       /\ prescriptions[id].status = "verified"
       /\ \E m \in 1..Len(prescriptions[id].medications) :
            NameMatches(prescriptions[id].medications[m].name, productName)

\* C1: every order holding a prescription-only product links a verified
\* prescription record whose medication list matches that product
C1_OrdersCoveredByApprovedPrescription ==
  \A i \in 1..Len(orders) :
    \A k \in 1..Len(orders[i].items) :
      orders[i].items[k].prescriptionRequired
        => Covered(orders[i], products[orders[i].items[k].product].name)

\* a cart line of the request names a prescription-only product that no
\* supplied prescription matches
Unmatched(T) ==
  \E k \in 1..Len(T.items) :
    /\ T.items[k].product \in DOMAIN products
    /\ products[T.items[k].product].prescriptionRequired
    /\ PrescriptionGate(T.prescriptions, products[T.items[k].product].name) # "pass"

\* C10: a createOrder with an unmatched prescription-only line ends in an
\* error and creates no order, and an order that is created holds every cart
\* line of its request
C10_NoPartialOrder ==
  [][\A t \in OrderTaskIds :
       (orderTasks[t].op = "createOrder" /\ orderTasks'[t].op = "idle")
         => /\ Unmatched(orderTasks[t])
                => (orders' = orders /\ response'.code \in {400, 500})
            /\ orders' # orders
                => Len(orders'[Len(orders')].items) = Len(orderTasks[t].items)]_vars

\* the order was refused for the missing prescription after an earlier cart
\* line had been accepted
C10_Witness ==
  /\ response.op = "createOrder"
  /\ response.error = "Prescription required"
  /\ orders = << >>
  /\ \E p \in DOMAIN products : products[p].stock.reserved > 0

\* the step in which createOrder decides the cart line of an active product
\* that is in stock and prescription-only
DecidesLine(t) ==
  LET T == orderTasks[t]
  IN /\ T.op = "createOrder"
     /\ T.pc = "find"
     /\ orderTasks'[t] # T
     /\ T.items[T.line].product \in DOMAIN products
     /\ products[T.items[T.line].product].isActive
     /\ products[T.items[T.line].product].stock.quantity >= T.items[T.line].quantity
     /\ products[T.items[T.line].product].prescriptionRequired

LinePassed(t) ==
  orderTasks'[t].op = "createOrder" /\ orderTasks'[t].pc = "save"

\* some supplied prescription lists a medication whose name matches the product
SomeSuppliedMatches(ps, productName) ==
  /\ ps.present
  /\ \E i \in 1..Len(ps.list) :
       ps.list[i].hasMedications /\ SomeMedication(ps.list[i], productName)

\* C11: the gate passes a prescription-only cart line exactly when some
\* supplied prescription lists a medication whose name contains the product
\* name or is contained in it, letter case aside
C11_GatePassesExactlyOnMatch ==
  [][\A t \in OrderTaskIds :
       DecidesLine(t)
         => (LinePassed(t)
               <=> SomeSuppliedMatches(orderTasks[t].prescriptions,
                     products[orderTasks[t].items[orderTasks[t].line].product].name))]_vars

\* the prescription records a request refers to
ReferencedIds(ps) ==
  IF ps.present THEN {ps.list[i]._id : i \in 1..Len(ps.list)} ELSE {}

\* C12: the gate's decision on a cart line is the same for every request that
\* refers to the same prescription records, whatever medication data the
\* request body carries
C12_GateIgnoresBodyMedications ==
  [][\A t \in OrderTaskIds :
       DecidesLine(t)
         => \A other \in SuppliedPrescriptions :
              ReferencedIds(other) = ReferencedIds(orderTasks[t].prescriptions)
                => (LinePassed(t)
                      <=> PrescriptionGate(other,
                            products[orderTasks[t].items[orderTasks[t].line].product].name)
                          = "pass")]_vars

----------------------------------------------------------------------------
(* Read claims *)

\* the urgency the priorities stand for
Urgency ==
  [p \in Priorities |->
     CASE p = "urgent" -> 4 [] p = "high" -> 3 [] p = "normal" -> 2 [] p = "low" -> 1]

\* C13: getPendingPrescriptions answers exactly the records in
\* pending_verification, the more urgent priority first (urgent, high, normal,
\* low) and the earlier submission first within one priority
C13_PendingQueueOrder ==
  (response.op = "getPendingPrescriptions" /\ response.code = 200)
    => /\ {response.body[i].id : i \in 1..Len(response.body)}
            = {id \in DOMAIN prescriptions :
                 prescriptions[id].status = "pending_verification"}
       /\ \A i, j \in 1..Len(response.body) :
            i < j =>
              \/ Urgency[response.body[i].priority] > Urgency[response.body[j].priority]
              \/ /\ response.body[i].priority = response.body[j].priority
                 /\ response.body[i].createdAt < response.body[j].createdAt

\* the refills of the first k medications
RECURSIVE RefillsUpTo(_, _)
RefillsUpTo(meds, k) ==
  IF k = 0 THEN 0 ELSE meds[k].refills + RefillsUpTo(meds, k - 1)

\* C17: the remainingRefills a response shows is max(0, sum of the record's
\* medication refills - refillsUsed), and so never negative
C17_RemainingRefills ==
  \A i \in 1..Len(response.body) :
    LET doc == prescriptions[response.body[i].id]
        left == RefillsUpTo(doc.medications, Len(doc.medications)) - doc.refillsUsed
    IN /\ response.body[i].remainingRefills >= 0
       /\ response.body[i].remainingRefills = IF left >= 0 THEN left ELSE 0

\* a record that used more refills than its medications grant was read back
C17_Witness ==
  /\ response.op = "getPrescription" /\ response.code = 200
  /\ Len(response.body) = 1
  /\ response.body[1].remainingRefills = 0
  /\ prescriptions[response.id].refillsUsed
       > RefillsUpTo(prescriptions[response.id].medications,
                     Len(prescriptions[response.id].medications))
  /\ Len(prescriptions[response.id].medications) > 1

\* C18: getPrescription shows a stored record to its owner and to pharmacists
\* and admins and answers 403 to everyone else, and getUserPrescriptions
\* lists only records of the caller
C18_ReadsConfined ==
  /\ (response.op = "getPrescription" /\ Exists(response.id))
       => IF \/ prescriptions[response.id].patient = response.user
             \/ Role(response.user) \in {"pharmacist", "admin"}
          THEN response.code = 200 /\ response.body = <<View(response.id)>>
          ELSE response.code = 403 /\ response.body = << >>
  /\ response.op = "getUserPrescriptions"
       => \A i \in 1..Len(response.body) : response.body[i].patient = response.user

\* a patient asked for a record of the other patient and was refused
C18_Witness ==
  /\ response.op = "getPrescription" /\ response.code = 403
  /\ Exists(response.id)
  /\ response.user \in Patients
  /\ prescriptions[response.id].patient \in Patients \ {response.user}

----------------------------------------------------------------------------
(* Decision, notification, date and numbering claims *)

\* C14: a decision of verifyPrescription that leaves the record rejected
\* stores a rejection reason with it
C14_RejectionNeedsReason ==
  [][\A id \in RxIds :
       (/\ Kept(id)
        /\ response'.op = "verifyPrescription" /\ response'.id = id
        /\ response'.code = 200
        /\ prescriptions'[id].status = "rejected")
         => prescriptions'[id].verificationStatus.rejectionReason # None]_vars

\* C15: a verifyPrescription whose mail to the patient fails still answers 200
\* with the decision stored, and an uploadPrescription whose mail to the
\* pharmacists fails still answers 201 and leaves the stored records alone
C15_MailFailureKeepsOutcome ==
  [][/\ \A u \in Users, id \in RxIds, body \in VerifyBodies :
          (/\ VerifyPrescription(u, id, body, FALSE)
           /\ authorize({"pharmacist", "admin"}, u)
           /\ Exists(id)
           /\ prescriptions[id].status # "verified")
            => /\ response'.code = 200
               /\ id \in DOMAIN prescriptions'
               /\ prescriptions'[id].status = Decision(u, body).status
               /\ prescriptions'[id].verificationStatus
                    = Decision(u, body).verificationStatus
     /\ \A t \in TaskIds :
          UploadNotify(t, FALSE)
            => /\ response'.code = 201
               /\ prescriptions' = prescriptions]_vars

\* the mail about a rejection could not be sent and the rejection stands
C15_Witness ==
  /\ response.op = "verifyPrescription"
  /\ response.logged = "Failed to send verification email"
  /\ response.code = 200
  /\ Exists(response.id)
  /\ prescriptions[response.id].status = "rejected"
  /\ prescriptions[response.id].verificationStatus.verifiedBy = response.user

\* C16: every stored record expires on or after its prescription date
C16_ExpiryNotBeforePrescription ==
  \A id \in DOMAIN prescriptions :
    prescriptions[id].expiryDate >= prescriptions[id].prescriptionDate

\* the step in which uploadPrescription, past its check of the required
\* fields, calls Prescription.create
CreateAttempt ==
  /\ response'.op = "uploadPrescription"
  /\ response'.code # 400
  /\ \A t \in TaskIds : tasks[t].op = "uploadPrescription" => tasks'[t] = tasks[t]

\* C19: every Prescription.create of uploadPrescription stores the record, and
\* the stored record carries a prescription number
C19_UploadAssignsNumber ==
  [][CreateAttempt
       => /\ rxCreated' = rxCreated + 1
          /\ rxCreated' \in DOMAIN prescriptions'
          /\ prescriptions'[rxCreated'].prescriptionNumber # None]_vars

\* C20: a record in status expired or fulfilled keeps that status
C20_ExpiredAndFulfilledAreTerminal ==
  [][\A id \in RxIds :
       (Kept(id) /\ prescriptions[id].status \in {"expired", "fulfilled"})
         => prescriptions'[id].status = prescriptions[id].status]_vars

----------------------------------------------------------------------------
(* Behaviour of the handlers *)

\* C21: a verifyPrescription that answers 200 leaves the record verified exactly
\* when the request's isApproved is true, and rejected otherwise; an approval
\* stores the time, the verifying user and the notes of the request
C21_VerifiedIffApproved ==
  [][\A u \in Users, id \in RxIds, body \in VerifyBodies, mailOk \in BOOLEAN :
       (/\ VerifyPrescription(u, id, body, mailOk)
        /\ response'.code = 200
        /\ id \in DOMAIN prescriptions')
         => /\ prescriptions'[id].status = "verified" <=> body.isApproved = "true"
            /\ prescriptions'[id].status \in {"verified", "rejected"}
            /\ body.isApproved = "true"
                 => /\ prescriptions'[id].verificationStatus.verifiedAt = Now
                    /\ prescriptions'[id].verificationStatus.verifiedBy = u
                    /\ prescriptions'[id].verificationStatus.verificationNotes = body.notes]_vars

\* the line the field is read from: the first non-blank line holding a keyword
FieldLine(lines, keywords) ==
  lines[CHOOSE i \in 1..Len(lines) :
          /\ HasKeyword(lines[i], keywords)
          /\ \A j \in 1..(i - 1) : ~HasKeyword(lines[j], keywords)]

\* the line without its leading label: what follows the first colon, or the
\* whole line when it has no colon, trimmed
WithoutLabel(line) ==
  IF FirstColon(line) = 0 THEN trim(line)
  ELSE trim(SubSeq(line, FirstColon(line) + 1, Len(line)))

\* C22: extractField answers the first line holding a keyword with only its
\* leading label removed (a line without a colon whole, trimmed), and the
\* parser's not-detected value when no line holds a keyword
C22_ExtractFieldFirstMatch ==
  [][\A side \in DOMAIN Sentinel, field \in DOMAIN FieldKeywords :
       ExtractField(side, field) =>
         LET lines == NonBlank(prescriptions[1].extractedText)
             keywords == FieldKeywords[field][side]
         IN IF \E i \in 1..Len(lines) : HasKeyword(lines[i], keywords)
            THEN response'.body
                   = <<[kind |-> "string", chars |-> WithoutLabel(FieldLine(lines, keywords))]>>
            ELSE response'.body = <<Sentinel[side]>>]_vars

\* the first pattern of the ordered list that matches the line, 0 when none does
FirstPattern(L) == Leftmost({p \in 1..Len(frequencyPatterns) : MatchStarts(L, p) # {}})

\* the frequency each named pattern and abbreviation stands for
PatternFrequency ==
  <<<< >>, << >>, Frequency.once, Frequency.twice, Frequency.three,
    Frequency.twice, Frequency.three, Frequency.four>>

\* C23: the frequency of a medication line is the one of the first pattern that
\* matches it, whatever else the line holds: "N times daily" for the numeric
\* patterns, the pattern's own frequency for the named ones and the
\* abbreviations, and the empty string when no pattern matches
C23_FrequencyByFirstPattern ==
  response.op = "extractMedications" =>
    LET found == SelectSeq(NonBlank(prescriptions[1].extractedText), IsMedicationLine)
    IN \A k \in 1..Len(found) :
         LET L == toLowerCase(found[k])
             p == FirstPattern(L)
         IN response.body[k].frequency =
              IF p = 0 THEN << >>
              ELSE IF p \in {1, 2}
              THEN SubSeq(L, Leftmost(MatchStarts(L, p)), RunEnd(L, Leftmost(MatchStarts(L, p))))
                     \o Frequency.times
              ELSE PatternFrequency[p]

\* C24: a stored record has status verified exactly when its
\* verificationStatus.isVerified is true
C24_VerifiedIffIsVerified ==
  \A id \in DOMAIN prescriptions :
     prescriptions[id].status = "verified" <=> prescriptions[id].verificationStatus.isVerified

\* C25: when verifyPrescription has just stored its decision on a record whose
\* uploadPrescription or reprocessPrescription is still waiting for OCR, the
\* handler's save after OCR leaves the decided status in place
C25_DecisionSurvivesOcrSave ==
  [][\A t \in TaskIds, outcome \in OcrOutcomes :
       (/\ tasks[t].op \in {"uploadPrescription", "reprocessPrescription"}
        /\ tasks[t].pc = "ocr"
        /\ response.op = "verifyPrescription" /\ response.code = 200
        /\ response.id = tasks[t].id
        /\ Kept(tasks[t].id)
        /\ UploadOcr(t, outcome) \/ ReprocessOcr(t, outcome))
         => /\ prescriptions[tasks[t].id].status \in {"verified", "rejected"}
            /\ prescriptions'[tasks[t].id].status = prescriptions[tasks[t].id].status]_vars

\* C26: a createOrder that is rejected leaves the stock of every product as it
\* was when the request arrived, also for the cart lines before the failing one
C26_RejectedOrderKeepsStock ==
  [][\A t \in OrderTaskIds :
       (/\ orderTasks[t].op = "createOrder"
        /\ orderTasks'[t].op = "idle"
        /\ response'.op = "createOrder"
        /\ response'.code >= 400)
         => \A p \in DOMAIN products :
              products'[p].stock = orderTasks[t].stockBefore[p]]_vars

\* the units of product p that the placed orders hold
RECURSIVE Ordered(_, _)
Ordered(os, p) ==
  IF os = << >> THEN 0 ELSE Requested(Head(os).items, p) + Ordered(Tail(os), p)

\* C27: no product has more units reserved than it has in stock, and once
\* the requests in flight have finished every product's reserved count has
\* grown by the quantities of the orders placed
C27_ReservationsNotLost ==
  /\ \A p \in DOMAIN products : products[p].stock.reserved <= products[p].stock.quantity
  /\ (\A t \in OrderTaskIds : orderTasks[t].op = "idle")
       => \A p \in DOMAIN products :
            products[p].stock.reserved = Catalog[p].stock.reserved + Ordered(orders, p)

\* how often the staff and customer requests recorded in an order's history
\* released its reservation, and how often they took it from the stock
RECURSIVE Count(_, _)
Count(history, statuses) ==
  IF history = << >> THEN 0
  ELSE (IF Head(history).updatedBy # None /\ Head(history).status \in statuses
        THEN 1 ELSE 0) + Count(Tail(history), statuses)
Releases(order) == Count(order.statusHistory, {"confirmed", "cancelled"})
Deductions(order) == Count(order.statusHistory, {"confirmed"})

\* C28: over any sequence of status updates, cancellations and payment
\* confirmations an order's quantity is released from the reservations at
\* most once and taken from the stock at most once, and no product's
\* quantity falls below 0
C28_StockAccountedOncePerOrder ==
  /\ \A i \in DOMAIN orders : Releases(orders[i]) <= 1 /\ Deductions(orders[i]) <= 1
  /\ \A p \in DOMAIN products : products[p].stock.quantity >= 0

\* C29: a cancelled order keeps the status cancelled whatever request
\* follows, and cancelOrder answers 200 only to the order's customer and only
\* from a cancellable status
C29_CancelledStaysCancelled ==
  [][/\ \A i \in DOMAIN orders :
          orders[i].status = "cancelled" => orders'[i].status = "cancelled"
     /\ (response'.op = "cancelOrder" /\ response'.code = 200)
          => /\ orders[response'.id].status \in cancellableStatuses
             /\ orders[response'.id].customer = response'.user]_vars

\* an upload or a reprocessing ends in this step
Ends(t) ==
  /\ tasks[t].op \in {"uploadPrescription", "reprocessPrescription"}
  /\ tasks'[t] = NoTask

\* a reprocessing of a stored record without images is answered 400 and
\* changes nothing
ReprocessWithoutImages ==
  \A u \in Users, id \in RxIds :
     (/\ ReprocessPrescription(u, id)
      /\ authorize({"pharmacist", "admin"}, u)
      /\ Exists(id)
      /\ Len(prescriptions[id].images) = 0)
       => /\ response'.code = 400
          /\ UNCHANGED <<prescriptions, tasks>>

====
